---- MODULE Spec2Model ----
(***************************************************************************)
(* A model of the ringhash consistent-hashing ring: the Ring tables, the   *)
(* node and key operations, the hash-range reassignment (convertHashes /   *)
(* convertHash) and the watcher registry with its channel hand-off.        *)
(*                                                                         *)
(* Go maps are functions with a finite DOMAIN; a lookup of a missing key   *)
(* yields the zero value of the element type, as in Go.  Array indices are *)
(* 0-based as in the source (At(arr, i) reads arr[i]).                     *)
(***************************************************************************)
EXTENDS Integers, Sequences, FiniteSets, TLC

\* ------------------------------------------------------------------ bounds
MaxVFactor == 2
MaxOrder == 1

\* New(): BaseVFactor: 1.
BaseVFactor == 1

Nodes == {"A", "B"}
VFactors == 0..MaxVFactor
Orders == 0..MaxOrder
KeyNames == {"k1", "k2"}
Payloads == {1, 2}
\* The optional argument hk ...string of Emplace: absent, or one token.
HashKeys == {<<>>, <<"t">>}

\* Zero values of Go: the empty string and the zero payload.
NoKey == ""
NoNode == ""
NoPayload == 0

\* ------------------------------------------------------------ error values
ErrNone == "nil"
ErrNodeNotFound == "ErrNodeNotFound"
ErrSliceHashCollision == "ErrSliceHashCollision"
ErrOutOfBounds == "ErrOutOfBounds"
ErrKeyAlreadyExists == "ErrKeyAlreadyExists"
ErrNilKey == "ErrNilKey"
ErrKeyNotFound == "ErrKeyNotFound"
ErrNodeAlreadyExists == "ErrNodeAlreadyExists"
ErrSliceAlreadyExists == "ErrSliceAlreadyExists"

\* ------------------------------------------------------------ Go map idiom
EmptyMap == <<>>
Has(m, k) == k \in DOMAIN m
Get(m, k, zero) == IF k \in DOMAIN m THEN m[k] ELSE zero
Put(m, k, v) == [x \in (DOMAIN m) \cup {k} |-> IF x = k THEN v ELSE m[x]]
Del(m, k) == [x \in (DOMAIN m) \ {k} |-> m[x]]

At(arr, i) == arr[i + 1]

\* --------------------------------------------------- external function ports
\* ToSliceName of New(): fmt.Sprintf("%s%d", s, i).
ToSliceName(s, i) == s \o ToString(i)

\* The Hash port, string -> uint64.  It is any deterministic function and is
\* not collision-free; this one puts key "k1" on the position of slice "A0",
\* the token "t" on the position shared by slices "A1" and "B0", and lets
\* the third slice of either node collide with another slice.
Hash(identifier) ==
    CASE identifier = "A0" -> 1
      [] identifier = "A1" -> 3
      [] identifier = "B0" -> 3
      [] identifier = "B1" -> 4
      [] identifier = "k1" -> 1
      [] identifier = "k2" -> 2
      [] identifier = "t" -> 3
      [] OTHER -> 0

SliceHash(node, idx) == Hash(ToSliceName(node, idx))

\* -------------------------------------------------------------- Op records
Op(key, node, payload, removed, updated, ringChange) ==
    [Key |-> key, Node |-> node, Payload |-> payload,
     Removed |-> removed, Updated |-> updated, RingChange |-> ringChange]

\* fmt.Sprintf("%t", b).
FormatBool(b) == IF b THEN "true" ELSE "false"

\* The routing functions a ring is given: the default of New, by node
\* identifier, and one an option installs, by node identifier followed by
\* the ringChange flag.
ByNode == "Node"
ByNodeRingChange == "NodeRingChange"
Filters == {ByNode, ByNodeRingChange}
FilterBy(f, op) ==
    CASE f = ByNode -> op.Node
      [] f = ByNodeRingChange -> op.Node \o FormatBool(op.RingChange)

\* ------------------------------------------------------------ ordered index
\* sort.Search(n, f): binary search for the smallest i in [0, n) with f(i);
\* p is the function i |-> f(i).
RECURSIVE Search(_, _, _)
Search(i, j, p) ==
    IF i < j
    THEN LET h == (i + j) \div 2
         IN IF ~p[h] THEN Search(h + 1, j, p) ELSE Search(i, h, p)
    ELSE i

findIndex(arr, val) ==
    Search(0, Len(arr), [i \in 0..(Len(arr) - 1) |-> At(arr, i) >= val])

\* A findKeyIndex that ignores Order and always answers the end of the list.
findKeyIndexAppends(t, k) == Len(t)

findKeyIndex(t, k) ==
    Search(0, Len(t), [i \in 0..(Len(t) - 1) |-> At(t, i).Order >= k.Order])

RECURSIVE findKeyByNameFrom(_, _, _)
findKeyByNameFrom(keys, name, idx) ==
    IF idx >= Len(keys) THEN -1
    ELSE IF At(keys, idx).Key = name THEN idx
    ELSE findKeyByNameFrom(keys, name, idx + 1)

findKeyByName(keys, name) == findKeyByNameFrom(keys, name, 0)

findPrevIndex(arr, idx) == IF idx = 0 THEN Len(arr) - 1 ELSE idx - 1

findNextIndex(arr, idx) == IF idx = Len(arr) - 1 THEN 0 ELSE idx + 1

\* insertPreserveOrder with the index function already applied: idx is
\* findIndex(arr, val) or findKeyIndex(arr, val).
insertAt(arr, val, idx) ==
    IF idx = Len(arr)
    THEN Append(arr, val)
    ELSE SubSeq(arr, 1, idx) \o <<val>> \o SubSeq(arr, idx + 1, Len(arr))

insertPreserveOrder(arr, val) == insertAt(arr, val, findIndex(arr, val))

\* An insertion of a key at the head of the list, whatever its Order.
insertKeyFirst(arr, val) == insertAt(arr, val, 0)

insertKeyPreserveOrder(arr, val) == insertAt(arr, val, findKeyIndex(arr, val))

\* removeIndex: the array and the error.
removeIndex(arr, idx) ==
    IF Len(arr) = 0 THEN [arr |-> <<>>, err |-> ErrNone]
    ELSE IF idx < 0 \/ idx >= Len(arr) THEN [arr |-> arr, err |-> ErrOutOfBounds]
    ELSE [arr |-> SubSeq(arr, 1, idx) \o SubSeq(arr, idx + 2, Len(arr)),
          err |-> ErrNone]

\* ------------------------------------------------------------- ring tables
\* The fields of Ring as one record; an execution x of a handler carries the
\* ring r it is mutating, the notify calls made so far (each with the ring
\* as it was when notify was called) and the error being returned.
NewRing ==
    [slices |-> <<>>, hashes |-> <<>>, empty |-> EmptyMap,
     nodesBySlice |-> EmptyMap, vFactorByNode |-> EmptyMap,
     slicesByHash |-> EmptyMap, keysByHash |-> EmptyMap,
     contentByKey |-> EmptyMap, hashesByKey |-> EmptyMap]

Begin(r) == [r |-> r, out |-> <<>>, err |-> ErrNone]

Fail(x, e) == [x EXCEPT !.err = e]

\* The call ring.notify(op) made by a handler.
emit(x, op) == [x EXCEPT !.out = Append(@, [op |-> op, at |-> x.r])]

\* for _, key := range ring.keysByHash[hash] { ring.notify(Op{...}) }
RECURSIVE notifyKeys(_, _, _, _, _, _)
notifyKeys(x, keys, idx, node, removed, ringChange) ==
    IF idx >= Len(keys) THEN x
    ELSE LET key == At(keys, idx)
             op == Op(key.Key, node,
                      Get(x.r.contentByKey, key.Key, NoPayload),
                      removed, FALSE, ringChange)
         IN notifyKeys(emit(x, op), keys, idx + 1, node, removed, ringChange)

\* A convertHash that reassigns the position before it notifies removals.
convertHashReassignsFirst(x, slice, hash) ==
    LET prevSlice == Get(x.r.slicesByHash, hash, 0)
        keys == Get(x.r.keysByHash, hash, <<>>)
        x1 == [x EXCEPT !.r.slicesByHash = Put(@, hash, slice)]
        x2 == notifyKeys(x1, keys, 0, Get(x.r.nodesBySlice, prevSlice, NoNode),
                         TRUE, TRUE)
    IN notifyKeys(x2, keys, 0, Get(x2.r.nodesBySlice, slice, NoNode),
                  FALSE, TRUE)

convertHash(x, slice, hash) ==
    LET prevSlice == Get(x.r.slicesByHash, hash, 0)
        keys == Get(x.r.keysByHash, hash, <<>>)
        x1 == notifyKeys(x, keys, 0, Get(x.r.nodesBySlice, prevSlice, NoNode),
                         TRUE, TRUE)
        x2 == [x1 EXCEPT !.r.slicesByHash = Put(@, hash, slice)]
    IN notifyKeys(x2, keys, 0, Get(x2.r.nodesBySlice, slice, NoNode),
                  FALSE, TRUE)

\* for _, hash := range ring.hashes { ring.convertHash(slice, hash) }
RECURSIVE convertAll(_, _, _)
convertAll(x, slice, idx) ==
    IF idx >= Len(x.r.hashes) THEN x
    ELSE convertAll(convertHash(x, slice, At(x.r.hashes, idx)), slice, idx + 1)

\* The for-loop of convertHashes; fuel bounds the recursion, and running
\* out of it is reported as the error "diverged".
RECURSIVE convertRange(_, _, _, _, _)
convertRange(x, slice, hashStartIndex, hashEndIndex, fuel) ==
    LET start == IF hashStartIndex = Len(x.r.hashes) THEN 0 ELSE hashStartIndex
    IN IF start = hashEndIndex THEN x
       ELSE IF fuel = 0 THEN Fail(x, "diverged")
       ELSE convertRange(convertHash(x, slice, At(x.r.hashes, start)),
                         slice, start + 1, hashEndIndex, fuel - 1)

\* A convertHashes that always converts the whole hash index.
convertHashesWholeRing(x, slice, hashStartIndex, hashEndIndex, circle) ==
    convertAll(x, slice, 0)

\* A convertHashes that keeps an end index equal to the length.
convertHashesKeepsEnd(x, slice, hashStartIndex, hashEndIndex, circle) ==
    IF (circle /\ hashStartIndex = hashEndIndex)
       \/ (hashStartIndex = 0 /\ hashEndIndex = Len(x.r.hashes))
    THEN convertAll(x, slice, 0)
    ELSE convertRange(x, slice, hashStartIndex, hashEndIndex,
                      Len(x.r.hashes) + 1)

convertHashes(x, slice, hashStartIndex, hashEndIndex, circle) ==
    IF (circle /\ hashStartIndex = hashEndIndex)
       \/ (hashStartIndex = 0 /\ hashEndIndex = Len(x.r.hashes))
    THEN convertAll(x, slice, 0)
    ELSE convertRange(x, slice, hashStartIndex,
                      IF hashEndIndex = Len(x.r.hashes) THEN 0 ELSE hashEndIndex,
                      Len(x.r.hashes) + 1)

\* The first-slice loop of insertSlice: for _, hash := range ring.empty.
\* Go iterates a map in an unspecified order; poolOrder is the order taken,
\* a sequence of the keys of ring.empty.
\* A first-slice loop that forgets delete(ring.empty, hash).
RECURSIVE moveFromEmptyKeepsPool(_, _, _, _)
moveFromEmptyKeepsPool(x, slice, poolOrder, idx) ==
    IF idx >= Len(poolOrder) THEN x
    ELSE LET hash == x.r.empty[At(poolOrder, idx)]
             x1 == [x EXCEPT !.r.slicesByHash = Put(@, hash, slice)]
             x2 == notifyKeys(x1, Get(x1.r.keysByHash, hash, <<>>), 0,
                              Get(x1.r.nodesBySlice, slice, NoNode),
                              FALSE, TRUE)
         IN moveFromEmptyKeepsPool(x2, slice, poolOrder, idx + 1)

\* A first-slice loop that stops after the first pooled position.
moveFromEmptyOnce(x, slice, poolOrder, idx) ==
    IF idx >= Len(poolOrder) THEN x
    ELSE LET hash == x.r.empty[At(poolOrder, idx)]
             x1 == [x EXCEPT !.r.slicesByHash = Put(@, hash, slice)]
             x2 == notifyKeys(x1, Get(x1.r.keysByHash, hash, <<>>), 0,
                              Get(x1.r.nodesBySlice, slice, NoNode),
                              FALSE, TRUE)
         IN [x2 EXCEPT !.r.empty = Del(@, hash)]

RECURSIVE moveFromEmpty(_, _, _, _)
moveFromEmpty(x, slice, poolOrder, idx) ==
    IF idx >= Len(poolOrder) THEN x
    ELSE LET hash == x.r.empty[At(poolOrder, idx)]
             x1 == [x EXCEPT !.r.slicesByHash = Put(@, hash, slice)]
             x2 == notifyKeys(x1, Get(x1.r.keysByHash, hash, <<>>), 0,
                              Get(x1.r.nodesBySlice, slice, NoNode),
                              FALSE, TRUE)
             x3 == [x2 EXCEPT !.r.empty = Del(@, hash)]
         IN moveFromEmpty(x3, slice, poolOrder, idx + 1)

insertSlice(x, slice, node, poolOrder) ==
    IF Has(x.r.nodesBySlice, slice) THEN Fail(x, ErrSliceAlreadyExists)
    ELSE LET idx == findIndex(x.r.slices, slice)
             x1 == [x EXCEPT !.r.slices = insertPreserveOrder(@, slice),
                             !.r.nodesBySlice = Put(@, slice, node)]
         IN IF Len(x1.r.slices) = 1
            THEN moveFromEmpty(x1, slice, poolOrder, 0)
            ELSE LET nextSlice == At(x1.r.slices, findNextIndex(x1.r.slices, idx))
                 IN convertHashes(x1, slice,
                                  findIndex(x1.r.hashes, slice),
                                  findIndex(x1.r.hashes, nextSlice),
                                  nextSlice < slice)

\* The last-slice loop of removeSlice: for _, hash := range ring.hashes.
RECURSIVE moveToEmpty(_, _, _)
moveToEmpty(x, slice, idx) ==
    IF idx >= Len(x.r.hashes) THEN x
    ELSE LET hash == At(x.r.hashes, idx)
             x1 == notifyKeys(x, Get(x.r.keysByHash, hash, <<>>), 0,
                              Get(x.r.nodesBySlice, slice, NoNode), TRUE, TRUE)
             x2 == [x1 EXCEPT !.r.empty = Put(@, hash, hash)]
         IN moveToEmpty(x2, slice, idx + 1)

removeSlice(x, slice) ==
    IF ~Has(x.r.nodesBySlice, slice) THEN x
    ELSE LET sliceIdx == findIndex(x.r.slices, slice)
             x1 == IF Len(x.r.slices) = 1
                   THEN moveToEmpty(x, slice, 0)
                   ELSE LET prevSlice ==
                                At(x.r.slices, findPrevIndex(x.r.slices, sliceIdx))
                            nextSlice ==
                                At(x.r.slices, findNextIndex(x.r.slices, sliceIdx))
                        IN convertHashes(x, prevSlice,
                                         findIndex(x.r.hashes, slice),
                                         findIndex(x.r.hashes, nextSlice),
                                         nextSlice < slice)
         IN [x1 EXCEPT !.r.slices = removeIndex(@, sliceIdx).arr,
                       !.r.nodesBySlice = Del(@, slice)]

\* ---------------------------------------------------------- node lifecycle
\* The loop of CreateNode from index idx: stop at the first error.
RECURSIVE createSlices(_, _, _, _, _)
createSlices(x, node, idx, end, poolOrder) ==
    IF idx >= end THEN x
    ELSE LET x1 == insertSlice(x, SliceHash(node, idx), node, poolOrder)
         IN IF x1.err # ErrNone THEN x1
            ELSE createSlices(x1, node, idx + 1, end, poolOrder)

CreateNode(r, node, vFactor, poolOrder) ==
    IF Has(r.vFactorByNode, node) THEN Fail(Begin(r), ErrNodeAlreadyExists)
    ELSE createSlices([Begin(r) EXCEPT !.r.vFactorByNode = Put(@, node, vFactor)],
                      node, 0, vFactor * BaseVFactor, poolOrder)

\* The loops of DeleteNode and of the decreasing branch of UpdateNode.
RECURSIVE removeSlices(_, _, _, _)
removeSlices(x, node, idx, end) ==
    IF idx >= end THEN x
    ELSE removeSlices(removeSlice(x, SliceHash(node, idx)), node, idx + 1, end)

DeleteNode(r, identifier) ==
    IF ~Has(r.vFactorByNode, identifier) THEN Begin(r)
    ELSE LET x1 == removeSlices(Begin(r), identifier, 0,
                                r.vFactorByNode[identifier] * BaseVFactor)
         IN [x1 EXCEPT !.r.vFactorByNode = Del(@, identifier)]

\* The increasing branch of UpdateNode: the only error of insertSlice is
\* ErrSliceAlreadyExists, returned as ErrSliceHashCollision.
RECURSIVE growSlices(_, _, _, _, _)
growSlices(x, node, idx, end, poolOrder) ==
    IF idx >= end THEN x
    ELSE LET x1 == insertSlice(x, SliceHash(node, idx), node, poolOrder)
         IN IF x1.err = ErrSliceAlreadyExists
            THEN Fail(x1, ErrSliceHashCollision)
            ELSE growSlices(x1, node, idx + 1, end, poolOrder)

\* An UpdateNode that creates the node it does not find.
UpdateNodeCreatesMissing(r, node, newVFactor, poolOrder) ==
    IF ~Has(r.vFactorByNode, node)
    THEN CreateNode(r, node, newVFactor, poolOrder)
    ELSE LET vFactor == r.vFactorByNode[node]
         IN IF newVFactor = vFactor THEN Begin(r)
            ELSE LET x1 == IF newVFactor > vFactor
                           THEN growSlices(Begin(r), node, vFactor * BaseVFactor,
                                           newVFactor * BaseVFactor, poolOrder)
                           ELSE removeSlices(Begin(r), node,
                                             newVFactor * BaseVFactor,
                                             vFactor * BaseVFactor)
                 IN IF x1.err # ErrNone THEN x1
                    ELSE [x1 EXCEPT !.r.vFactorByNode = Put(@, node, newVFactor)]

UpdateNode(r, node, newVFactor, poolOrder) ==
    IF ~Has(r.vFactorByNode, node) THEN Fail(Begin(r), ErrNodeNotFound)
    ELSE LET vFactor == r.vFactorByNode[node]
         IN IF newVFactor = vFactor THEN Begin(r)
            ELSE LET x1 == IF newVFactor > vFactor
                           THEN growSlices(Begin(r), node, vFactor * BaseVFactor,
                                           newVFactor * BaseVFactor, poolOrder)
                           ELSE removeSlices(Begin(r), node,
                                             newVFactor * BaseVFactor,
                                             vFactor * BaseVFactor)
                 IN IF x1.err # ErrNone THEN x1
                    ELSE [x1 EXCEPT !.r.vFactorByNode = Put(@, node, newVFactor)]

GetNode(r, identifier) ==
    IF ~Has(r.vFactorByNode, identifier)
    THEN [node |-> [Identifier |-> "", VFactor |-> 0], err |-> ErrNodeNotFound]
    ELSE [node |-> [Identifier |-> identifier,
                    VFactor |-> r.vFactorByNode[identifier]],
          err |-> ErrNone]

ListNodes(r) == DOMAIN r.vFactorByNode

\* ----------------------------------------------------------- key lifecycle
\* An insertHash that does not look for the hash first.
insertHashAgain(hashes, hash) == insertPreserveOrder(hashes, hash)

insertHash(hashes, hash) ==
    LET idx == findIndex(hashes, hash)
    IN IF idx >= Len(hashes) \/ At(hashes, idx) # hash
       THEN insertPreserveOrder(hashes, hash)
       ELSE hashes

removeHash(hashes, hash) ==
    LET idx == findIndex(hashes, hash)
    IN IF idx < Len(hashes) /\ At(hashes, idx) = hash
       THEN removeIndex(hashes, idx).arr
       ELSE hashes

\* An Emplace that stores the payload before it rejects a duplicate key.
EmplaceOverwrites(r, key, hk) ==
    IF key.IsNil THEN Fail(Begin(r), ErrNilKey)
    ELSE IF Has(r.hashesByKey, key.Key)
    THEN Fail([Begin(r) EXCEPT !.r.contentByKey = Put(@, key.Key, key.Value)],
              ErrKeyAlreadyExists)
    ELSE LET hashKey == IF Len(hk) = 0 THEN key.Key ELSE hk[1]
             hash == Hash(hashKey)
             x1 == [Begin(r) EXCEPT
                      !.r.contentByKey = Put(@, key.Key, key.Value),
                      !.r.hashes = insertHash(@, hash)]
             x2 == IF Len(x1.r.slices) = 0
                   THEN emit([x1 EXCEPT !.r.empty = Put(@, hash, hash)],
                             Op(key.Key, NoNode, key.Value, FALSE, FALSE, FALSE))
                   ELSE LET slice ==
                                At(x1.r.slices,
                                   findPrevIndex(x1.r.slices,
                                                 findIndex(x1.r.slices, hash)))
                        IN emit([x1 EXCEPT !.r.slicesByHash = Put(@, hash, slice)],
                                Op(key.Key, Get(x1.r.nodesBySlice, slice, NoNode),
                                   key.Value, FALSE, FALSE, FALSE))
         IN [x2 EXCEPT
               !.r.keysByHash =
                   Put(@, hash,
                       insertKeyPreserveOrder(Get(@, hash, <<>>),
                                              [Key |-> key.Key, Order |-> key.Order])),
               !.r.hashesByKey = Put(@, key.Key, hash)]

\* Emplace(key, hk...): key is nil or {Key, Order, Value}.
Emplace(r, key, hk) ==
    IF key.IsNil THEN Fail(Begin(r), ErrNilKey)
    ELSE IF Has(r.hashesByKey, key.Key) THEN Fail(Begin(r), ErrKeyAlreadyExists)
    ELSE LET hashKey == IF Len(hk) = 0 THEN key.Key ELSE hk[1]
             hash == Hash(hashKey)
             x1 == [Begin(r) EXCEPT
                      !.r.contentByKey = Put(@, key.Key, key.Value),
                      !.r.hashes = insertHash(@, hash)]
             x2 == IF Len(x1.r.slices) = 0
                   THEN emit([x1 EXCEPT !.r.empty = Put(@, hash, hash)],
                             Op(key.Key, NoNode, key.Value, FALSE, FALSE, FALSE))
                   ELSE LET slice ==
                                At(x1.r.slices,
                                   findPrevIndex(x1.r.slices,
                                                 findIndex(x1.r.slices, hash)))
                        IN emit([x1 EXCEPT !.r.slicesByHash = Put(@, hash, slice)],
                                Op(key.Key, Get(x1.r.nodesBySlice, slice, NoNode),
                                   key.Value, FALSE, FALSE, FALSE))
         IN [x2 EXCEPT
               !.r.keysByHash =
                   Put(@, hash,
                       insertKeyPreserveOrder(Get(@, hash, <<>>),
                                              [Key |-> key.Key, Order |-> key.Order])),
               !.r.hashesByKey = Put(@, key.Key, hash)]

\* The node named by Update's notification.
updateNodeOf(r, keyName) ==
    Get(r.nodesBySlice,
        Get(r.slicesByHash, Get(r.hashesByKey, keyName, 0), 0), NoNode)

\* Update after its two checks: the write of the payload and the notify.
updateStore(x, key) ==
    LET x1 == [x EXCEPT !.r.contentByKey = Put(@, key.Key, key.Value)]
    IN emit(x1, Op(key.Key, updateNodeOf(x1.r, key.Key), key.Value,
                   FALSE, TRUE, FALSE))

\* Update(key): key is nil or {Key, Order, Value}.
Update(r, key) ==
    IF key.IsNil THEN Fail(Begin(r), ErrNilKey)
    ELSE IF ~Has(r.contentByKey, key.Key) THEN Fail(Begin(r), ErrKeyNotFound)
    ELSE updateStore(Begin(r), key)

Remove(r, key) ==
    IF ~Has(r.hashesByKey, key) THEN Begin(r)
    ELSE LET hash == r.hashesByKey[key]
             keys == Get(r.keysByHash, hash, <<>>)
             x1 == [Begin(r) EXCEPT
                      !.r.contentByKey = Del(@, key),
                      !.r.keysByHash =
                          Put(@, hash,
                              removeIndex(keys, findKeyByName(keys, key)).arr)]
             x2 == IF Cardinality(DOMAIN x1.r.empty) > 0
                   THEN emit([x1 EXCEPT !.r.empty = Del(@, hash)],
                             Op(key, NoNode, NoPayload, TRUE, FALSE, FALSE))
                   ELSE emit(x1,
                             Op(key,
                                Get(x1.r.nodesBySlice,
                                    Get(x1.r.slicesByHash, hash, 0), NoNode),
                                NoPayload, TRUE, FALSE, FALSE))
             x3 == IF Len(x2.r.keysByHash[hash]) = 0
                   THEN [x2 EXCEPT !.r.hashes = removeHash(@, hash),
                                   !.r.slicesByHash = Del(@, hash)]
                   ELSE x2
         IN [x3 EXCEPT !.r.hashesByKey = Del(@, key)]

\* ------------------------------------------------------------------ state
VARIABLES
    slices, hashes, empty, nodesBySlice, vFactorByNode, slicesByHash,
    keysByHash, contentByKey, hashesByKey,   \* the fields of Ring
    mu,          \* Ring.mu: the caller holding it exclusively, or NoProc
    watchMu,     \* watcher.watchMu: the caller holding it, or NoProc
    watchers,    \* watcher.watchers: routing key -> subscription
    subs,        \* the opChans made so far, by subscription number
    callers,     \* each concurrent caller: where it is in its call
    dereg,       \* the caller of DeregisterWatcher: where it is
    ncalls,      \* ring calls started so far
    filter       \* watcher.Filter: the routing function of the ring

ringVars == <<slices, hashes, empty, nodesBySlice, vFactorByNode, slicesByHash,
              keysByHash, contentByKey, hashesByKey, filter>>

hubVars == <<mu, watchMu, watchers, subs, callers, dereg, ncalls>>

vars == <<ringVars, hubVars>>

\* The ring tables as one record.
Ring ==
    [slices |-> slices, hashes |-> hashes, empty |-> empty,
     nodesBySlice |-> nodesBySlice, vFactorByNode |-> vFactorByNode,
     slicesByHash |-> slicesByHash, keysByHash |-> keysByHash,
     contentByKey |-> contentByKey, hashesByKey |-> hashesByKey]

SetRing(r) ==
    /\ slices' = r.slices
    /\ hashes' = r.hashes
    /\ empty' = r.empty
    /\ nodesBySlice' = r.nodesBySlice
    /\ vFactorByNode' = r.vFactorByNode
    /\ slicesByHash' = r.slicesByHash
    /\ keysByHash' = r.keysByHash
    /\ contentByKey' = r.contentByKey
    /\ hashesByKey' = r.hashesByKey
    /\ filter' = filter

\* ring.Filter(op): the routing key of op.
Filter(op) == FilterBy(filter, op)

OpsOf(out) == [i \in 1..Len(out) |-> out[i].op]

\* The iteration orders Go may take over the map ring.empty.
Perms(S) ==
    {f \in [1..Cardinality(S) -> S] : \A i, j \in 1..Cardinality(S) :
                                          i # j => f[i] # f[j]}

PoolOrders(r) == Perms(DOMAIN r.empty)

\* The argument key *Key[T] of Emplace and Update: nil or a key.
NilKey == [IsNil |-> TRUE, Key |-> NoKey, Order |-> 0, Value |-> NoPayload]
KeyOf(keyName, order, value) ==
    [IsNil |-> FALSE, Key |-> keyName, Order |-> order, Value |-> value]
KeyArgs ==
    {NilKey} \cup {KeyOf(k, o, v) : k \in KeyNames, o \in Orders, v \in Payloads}

\* ------------------------------------------- concurrent callers and the hub
MaxCalls == 3
MaxSubs == 2

Procs == {"p1", "p2"}
NoProc == ""
NoSub == 0

\* An opChans value: msg and done are unbuffered channels, of which only
\* "closed or not" is state; wg is the WaitGroup counter; got is what the
\* subscriber has received from msg so far.
\* late records a wg.Add(1) made when the registry no longer held the
\* subscription; key records the routing key RegisterWatcher stored it under.
NewOpChans ==
    [msgClosed |-> FALSE, doneClosed |-> FALSE, wg |-> 0, got |-> <<>>,
     late |-> FALSE, key |-> ""]

NoCall == [op |-> "none", node |-> NoNode, vFactor |-> 0, key |-> NilKey,
           hk |-> <<>>]

\* A caller outside any call.
IdleCaller ==
    [pc |-> "idle", call |-> NoCall, script |-> <<>>, final |-> NewRing,
     op |-> Op(NoKey, NoNode, NoPayload, FALSE, FALSE, FALSE),
     idx |-> 0, watcher |-> NoSub, locked |-> FALSE,
     err |-> ErrNone, owner |-> NoNode, regAt |-> NoSub, gotAt |-> 0]

IdleDereg ==
    [pc |-> "idle", key |-> NoNode, sub |-> NoSub, owed |-> {}, freed |-> {}]

InitHub ==
    /\ mu = NoProc
    /\ watchMu = NoProc
    /\ watchers = EmptyMap
    /\ subs = <<>>
    /\ callers = [p \in Procs |-> IdleCaller]
    /\ dereg = IdleDereg
    /\ ncalls = 0

\* The ring New returns when its options install routing function f.
NewWith(f) ==
    /\ InitHub
    /\ slices = NewRing.slices
    /\ hashes = NewRing.hashes
    /\ empty = NewRing.empty
    /\ nodesBySlice = NewRing.nodesBySlice
    /\ vFactorByNode = NewRing.vFactorByNode
    /\ slicesByHash = NewRing.slicesByHash
    /\ keysByHash = NewRing.keysByHash
    /\ contentByKey = NewRing.contentByKey
    /\ hashesByKey = NewRing.hashesByKey
    /\ filter = f

\* New without options.
Init == NewWith(ByNode)

\* ---------------------------------------------------------------- actions
\* Each public method run to completion by a single caller.
CreateNodeCall(node, vFactor) ==
    \E poolOrder \in PoolOrders(Ring) :
        \E x \in {CreateNode(Ring, node, vFactor, poolOrder)} :
            /\ SetRing(x.r)
            /\ UNCHANGED hubVars

DeleteNodeCall(identifier) ==
    /\ identifier \in Nodes
    /\ \E x \in {DeleteNode(Ring, identifier)} : SetRing(x.r)
    /\ UNCHANGED hubVars

UpdateNodeCall(node, vFactor) ==
    \E poolOrder \in PoolOrders(Ring) :
        \E x \in {UpdateNode(Ring, node, vFactor, poolOrder)} :
            /\ SetRing(x.r)
            /\ UNCHANGED hubVars

EmplaceCall(key, hk) ==
    /\ key \in KeyArgs
    /\ \E x \in {Emplace(Ring, key, hk)} : SetRing(x.r)
    /\ UNCHANGED hubVars

UpdateCall(key) ==
    /\ key \in KeyArgs
    /\ \E x \in {Update(Ring, key)} : SetRing(x.r)
    /\ UNCHANGED hubVars

RemoveCall(keyName) ==
    /\ keyName \in KeyNames
    /\ \E x \in {Remove(Ring, keyName)} : SetRing(x.r)
    /\ UNCHANGED hubVars

Next ==
    \/ \E node \in Nodes, vFactor \in VFactors : CreateNodeCall(node, vFactor)
    \/ \E node \in Nodes : DeleteNodeCall(node)
    \/ \E node \in Nodes, vFactor \in VFactors : UpdateNodeCall(node, vFactor)
    \/ \E key \in KeyArgs, hk \in HashKeys : EmplaceCall(key, hk)
    \/ \E key \in KeyArgs : UpdateCall(key)
    \/ \E keyName \in KeyNames : RemoveCall(keyName)

Spec == Init /\ [][Next]_vars

\* ------------------------------------------- the ring under concurrent use
\* Callers run the public methods concurrently.  A method that locks ring.mu
\* runs from Lock to its first notify, and from one notify to the next, as
\* one step each: nothing else touches the tables it works on, except the
\* payload table, which Update writes without the lock.  RegisterWatcher and
\* the locked part of DeregisterWatcher are one step each, taken when
\* watchMu is free; notify holds watchMu from its lookup to its wg.Add(1).

\* The calls made by concurrent callers.
WatchNode == "A"
WatchKey == "k1"
WatchCalls ==
    {[op |-> "CreateNode", node |-> n, vFactor |-> 1, key |-> NilKey,
      hk |-> <<>>] : n \in Nodes}
    \cup
    {
     [op |-> "DeleteNode", node |-> WatchNode, vFactor |-> 0, key |-> NilKey,
      hk |-> <<>>],
     [op |-> "Emplace", node |-> NoNode, vFactor |-> 0,
      key |-> KeyOf(WatchKey, 0, 1), hk |-> <<>>],
     [op |-> "Remove", node |-> NoNode, vFactor |-> 0,
      key |-> KeyOf(WatchKey, 0, NoPayload), hk |-> <<>>]}
UpdateCalls ==
    {[op |-> "Update", node |-> NoNode, vFactor |-> 0,
      key |-> KeyOf(WatchKey, 0, 2), hk |-> <<>>]}

\* The templates given to RegisterWatcher and DeregisterWatcher, by the
\* routing key Filter gives them.
Templates == {Op(NoKey, n, NoPayload, FALSE, FALSE, ringChange) :
                 n \in {NoNode, WatchNode}, ringChange \in BOOLEAN}
RouteKeys == {Filter(t) : t \in Templates}

\* The locking method a call names, run on ring r.
Run(r, call, poolOrder) ==
    CASE call.op = "CreateNode" -> CreateNode(r, call.node, call.vFactor, poolOrder)
      [] call.op = "DeleteNode" -> DeleteNode(r, call.node)
      [] call.op = "UpdateNode" -> UpdateNode(r, call.node, call.vFactor, poolOrder)
      [] call.op = "Emplace" -> Emplace(r, call.key, call.hk)
      [] call.op = "Remove" -> Remove(r, call.key.Key)

Range(seq) == {seq[i] : i \in DOMAIN seq}

\* The slice that owns hash per the half-open interval [slice, next slice):
\* the largest slice position <= hash, else (wrapping) the largest slice.
Max(S) == CHOOSE m \in S : \A n \in S : n <= m
OwnerOf(sliceSeq, hash) ==
    LET below == {sl \in Range(sliceSeq) : sl <= hash}
    IN IF below # {} THEN Max(below) ELSE Max(Range(sliceSeq))

\* The node that owns the key's hash position in ring r, by the slices of r.
OwnerNode(r, keyName) ==
    IF Has(r.hashesByKey, keyName) /\ Len(r.slices) > 0
    THEN Get(r.nodesBySlice, OwnerOf(r.slices, r.hashesByKey[keyName]), NoNode)
    ELSE NoNode

\* For an Emplace or Remove: the owner of the key's position (after the
\* Emplace, before the Remove).
CallOwner(call, before, after) ==
    CASE call.op = "Emplace" -> OwnerNode(after, call.key.Key)
      [] call.op = "Remove" -> OwnerNode(before, call.key.Key)
      [] OTHER -> NoNode

\* The tables of r, with the payload table as it is now.
SetTables(r) == SetRing([r EXCEPT !.contentByKey = contentByKey])

\* The Op built for the notify at position idx of a script: a ring-change
\* Op reads the payload table when it is built.
BuildOp(script, idx) ==
    LET o == script[idx].op
    IN IF o.RingChange
       THEN [o EXCEPT !.Payload = Get(contentByKey, o.Key, NoPayload)]
       ELSE o

\* The Op a caller has passed to the notify it is in.
CurrentOp(c) == c.op

\* A caller back from its call.
Returned(c) == IdleCaller

\* A locking method is called: Lock, then the body up to its first notify,
\* or to its return when it notifies nobody.
BeginCall(p, call) ==
    /\ callers[p].pc = "idle"
    /\ ncalls < MaxCalls
    /\ mu = NoProc
    /\ \E poolOrder \in PoolOrders(Ring) :
       \E x \in {Run(Ring, call, poolOrder)} :
       \E owner \in {CallOwner(call, Ring, x.r)} :
       \E reg \in {IF owner = NoNode THEN NoSub
                    ELSE Get(watchers, owner, NoSub)} :
         LET c == [IdleCaller EXCEPT
                     !.call = call, !.err = x.err, !.owner = owner,
                     !.regAt = reg,
                     !.gotAt = IF reg = NoSub THEN 0 ELSE Len(subs[reg].got)]
         IN IF Len(x.out) = 0
            THEN /\ SetRing(x.r)
                 /\ callers' = [callers EXCEPT ![p] = c]
                 /\ mu' = mu
            ELSE /\ SetRing(x.out[1].at)
                 /\ callers' = [callers EXCEPT ![p] =
                        [c EXCEPT !.pc = "notify", !.script = x.out,
                                  !.op = x.out[1].op,
                                  !.final = x.r, !.idx = 1, !.locked = TRUE]]
                 /\ mu' = p
    /\ ncalls' = ncalls + 1
    /\ UNCHANGED <<watchMu, watchers, subs, dereg>>

\* Update is called with a non-nil key: it takes no lock.
BeginUpdate(p, call) ==
    /\ callers[p].pc = "idle"
    /\ ncalls < MaxCalls
    /\ callers' = [callers EXCEPT ![p] =
                      [IdleCaller EXCEPT !.pc = "updCheck", !.call = call]]
    /\ ncalls' = ncalls + 1
    /\ UNCHANGED <<ringVars, mu, watchMu, watchers, subs, dereg>>

\* Update: _, ok := ring.contentByKey[key.InnerKey.Key].
UpdateCheck(p) ==
    /\ callers[p].pc = "updCheck"
    /\ callers' = [callers EXCEPT ![p] =
                      IF Has(contentByKey, callers[p].call.key.Key)
                      THEN [@ EXCEPT !.pc = "updStore"]
                      ELSE Returned(@)]
    /\ UNCHANGED <<ringVars, mu, watchMu, watchers, subs, dereg, ncalls>>

\* Update: the write of the payload, and the Op built for notify.
UpdateStore(p) ==
    /\ callers[p].pc = "updStore"
    /\ \E x \in {updateStore(Begin(Ring), callers[p].call.key)} :
          /\ SetRing(x.r)
          /\ callers' = [callers EXCEPT ![p] =
                 [@ EXCEPT !.pc = "notify", !.script = x.out, !.final = x.r,
                           !.op = x.out[1].op,
                           !.idx = 1]]
    /\ UNCHANGED <<mu, watchMu, watchers, subs, dereg, ncalls>>

\* The caller's notify has returned: the body goes on to its next notify,
\* or to its end (the deferred Unlock of a locking method) and returns.
Advance(p, c) ==
    IF c.idx < Len(c.script)
    THEN /\ callers' = [callers EXCEPT ![p] =
                           [c EXCEPT !.pc = "notify", !.idx = c.idx + 1,
                                     !.op = BuildOp(c.script, c.idx + 1)]]
         /\ IF c.locked THEN SetTables(c.script[c.idx + 1].at)
                        ELSE UNCHANGED ringVars
         /\ mu' = mu
    ELSE /\ callers' = [callers EXCEPT ![p] = Returned(c)]
         /\ IF c.locked THEN SetTables(c.final) ELSE UNCHANGED ringVars
         /\ mu' = IF c.locked THEN NoProc ELSE mu

\* A notify that takes whichever subscription the registry holds.
NotifyLookupAnyWatcher(p) ==
    /\ callers[p].pc = "notify"
    /\ watchMu = NoProc
    /\ IF watchers # EmptyMap
       THEN /\ \E key \in DOMAIN watchers :
                   callers' = [callers EXCEPT ![p] =
                      [@ EXCEPT !.pc = "add", !.watcher = watchers[key]]]
            /\ watchMu' = p
            /\ UNCHANGED <<ringVars, mu>>
       ELSE /\ Advance(p, [callers[p] EXCEPT !.watcher = NoSub])
            /\ watchMu' = watchMu
    /\ UNCHANGED <<watchers, subs, dereg, ncalls>>

\* A notify that, finding no subscription, keeps the event and waits for one.
NotifyLookupKeepsEvent(p) ==
    /\ callers[p].pc = "notify"
    /\ watchMu = NoProc
    /\ LET key == Filter(CurrentOp(callers[p]))
       IN /\ callers' = [callers EXCEPT ![p] =
                 IF Has(watchers, key)
                 THEN [@ EXCEPT !.pc = "add", !.watcher = watchers[key]]
                 ELSE [@ EXCEPT !.pc = "kept"]]
          /\ watchMu' = IF Has(watchers, key) THEN p ELSE watchMu
    /\ UNCHANGED <<ringVars, mu, watchers, subs, dereg, ncalls>>

\* notify: watchMu.Lock() and the lookup; without a subscription notify
\* unlocks and returns.
NotifyLookup(p) ==
    /\ callers[p].pc = "notify"
    /\ watchMu = NoProc
    /\ LET key == Filter(CurrentOp(callers[p]))
       IN IF Has(watchers, key)
          THEN /\ callers' = [callers EXCEPT ![p] =
                      [@ EXCEPT !.pc = "add", !.watcher = watchers[key]]]
               /\ watchMu' = p
               /\ UNCHANGED <<ringVars, mu>>
          ELSE /\ Advance(p, [callers[p] EXCEPT !.watcher = NoSub])
               /\ watchMu' = watchMu
    /\ UNCHANGED <<watchers, subs, dereg, ncalls>>

\* The registry holds subscription s.
Registered(s) == \E k \in DOMAIN watchers : watchers[k] = s

\* notify: watcher.wg.Add(1), and watchMu.Unlock().
NotifyAdd(p) ==
    /\ callers[p].pc = "add"
    /\ subs' = [subs EXCEPT ![callers[p].watcher] =
                   [@ EXCEPT !.wg = @ + 1,
                             !.late = @ \/ ~Registered(callers[p].watcher)]]
    /\ callers' = [callers EXCEPT ![p].pc = "select"]
    /\ watchMu' = NoProc
    /\ UNCHANGED <<ringVars, mu, watchers, dereg, ncalls>>

\* A caller leaves its select: it is no longer owed an unblocking, and is
\* freed by the DeregisterWatcher under way if it leaves by the done case
\* of the subscription being deregistered.
LeaveSelect(p, byDone) ==
    [dereg EXCEPT
       !.owed = @ \ {p},
       !.freed = IF byDone /\ p \in dereg.owed
                           /\ callers[p].watcher = dereg.sub
                 THEN @ \cup {p} ELSE @]

\* select, case watcher.msg <- op: the subscriber receives op.  A send on
\* a closed channel panics.
Send(p) ==
    /\ callers[p].pc = "select"
    /\ LET s == callers[p].watcher
       IN IF subs[s].msgClosed
          THEN /\ callers' = [callers EXCEPT ![p].pc = "panic"]
               /\ subs' = subs
          ELSE /\ callers' = [callers EXCEPT ![p].pc = "wgDone"]
               /\ subs' = [subs EXCEPT ![s].got = Append(@, CurrentOp(callers[p]))]
    /\ dereg' = LeaveSelect(p, FALSE)
    /\ UNCHANGED <<ringVars, mu, watchMu, watchers, ncalls>>

\* select, case <-watcher.done.
Cancelled(p) ==
    /\ callers[p].pc = "select"
    /\ subs[callers[p].watcher].doneClosed
    /\ callers' = [callers EXCEPT ![p].pc = "wgDone"]
    /\ dereg' = LeaveSelect(p, TRUE)
    /\ UNCHANGED <<ringVars, mu, watchMu, watchers, subs, ncalls>>

\* The deferred watcher.wg.Done(), and the return of notify.
WgDone(p) ==
    /\ callers[p].pc = "wgDone"
    /\ subs' = [subs EXCEPT ![callers[p].watcher].wg = @ - 1]
    /\ Advance(p, callers[p])
    /\ UNCHANGED <<watchMu, watchers, dereg, ncalls>>

RegisterWatcher(key) ==
    /\ watchMu = NoProc
    /\ Len(subs) < MaxSubs
    /\ subs' = Append(subs, [NewOpChans EXCEPT !.key = key])
    /\ watchers' = Put(watchers, key, Len(subs) + 1)
    /\ UNCHANGED <<ringVars, mu, watchMu, callers, dereg, ncalls>>

\* The locked part of DeregisterWatcher: the lookup and the delete.  owed is
\* the callers whose notify is blocked, at this moment, on a subscription
\* that was registered under this routing key.
DeregisterLookup(key) ==
    /\ IF Has(watchers, key)
       THEN /\ dereg' = [pc |-> "closeDone", key |-> key, sub |-> watchers[key],
                         owed |-> {p \in Procs :
                                     /\ callers[p].pc = "select"
                                     /\ Filter(CurrentOp(callers[p])) = key},
                         freed |-> {}]
            /\ watchers' = Del(watchers, key)
       ELSE /\ dereg' = [IdleDereg EXCEPT !.key = key]
            /\ watchers' = watchers
    /\ UNCHANGED <<ringVars, mu, watchMu, subs, callers, ncalls>>

\* A DeregisterWatcher that does not take watchMu.
DeregisterWatcherUnlocked(key) ==
    /\ dereg.pc = "idle"
    /\ DeregisterLookup(key)

DeregisterWatcher(key) ==
    /\ dereg.pc = "idle"
    /\ watchMu = NoProc
    /\ DeregisterLookup(key)

\* A DeregisterWatcher that forgets close(c.done).
DeregKeepsDoneOpen ==
    /\ dereg.pc = "closeDone"
    /\ dereg' = [dereg EXCEPT !.pc = "wait"]
    /\ UNCHANGED <<ringVars, mu, watchMu, watchers, subs, callers, ncalls>>

\* close(c.done); closing a closed channel panics.
DeregCloseDone ==
    /\ dereg.pc = "closeDone"
    /\ dereg' = [dereg EXCEPT !.pc = IF subs[dereg.sub].doneClosed
                                     THEN "panic" ELSE "wait"]
    /\ subs' = [subs EXCEPT ![dereg.sub].doneClosed = TRUE]
    /\ UNCHANGED <<ringVars, mu, watchMu, watchers, callers, ncalls>>

\* c.wg.Wait().
DeregWait ==
    /\ dereg.pc = "wait"
    /\ subs[dereg.sub].wg = 0
    /\ dereg' = [dereg EXCEPT !.pc = "closeMsg"]
    /\ UNCHANGED <<ringVars, mu, watchMu, watchers, subs, callers, ncalls>>

\* close(c.msg), and the return of DeregisterWatcher.
DeregCloseMsg ==
    /\ dereg.pc = "closeMsg"
    /\ dereg' = [dereg EXCEPT !.pc = IF subs[dereg.sub].msgClosed
                                     THEN "panic" ELSE "idle"]
    /\ subs' = [subs EXCEPT ![dereg.sub].msgClosed = TRUE]
    /\ UNCHANGED <<ringVars, mu, watchMu, watchers, callers, ncalls>>

CallerStep(p) ==
    \/ UpdateCheck(p)
    \/ UpdateStore(p)
    \/ NotifyLookup(p)
    \/ NotifyAdd(p)
    \/ Cancelled(p)
    \/ WgDone(p)

DeregStep ==
    \/ DeregCloseDone
    \/ DeregWait
    \/ DeregCloseMsg

WatchNext ==
    \/ \E p \in Procs, call \in WatchCalls : BeginCall(p, call)
    \/ \E p \in Procs, call \in UpdateCalls : BeginUpdate(p, call)
    \/ \E p \in Procs : CallerStep(p)
    \/ \E p \in Procs : Send(p)
    \/ \E key \in RouteKeys : RegisterWatcher(key)
    \/ \E key \in RouteKeys : DeregisterWatcher(key)
    \/ DeregStep

WatchSpec == Init /\ [][WatchNext]_vars

\* The same callers, with watchers registered for every node.
NodeTemplates == {Op(NoKey, n, NoPayload, FALSE, FALSE, ringChange) :
                     n \in {NoNode} \cup Nodes, ringChange \in BOOLEAN}
NodeRouteKeys == {Filter(t) : t \in NodeTemplates}
AnyNodeNext ==
    \/ \E p \in Procs, call \in WatchCalls : BeginCall(p, call)
    \/ \E p \in Procs, call \in UpdateCalls : BeginUpdate(p, call)
    \/ \E p \in Procs : CallerStep(p)
    \/ \E p \in Procs : Send(p)
    \/ \E key \in NodeRouteKeys : RegisterWatcher(key)
    \/ \E key \in NodeRouteKeys : DeregisterWatcher(key)
    \/ DeregStep
AnyNodeSpec == Init /\ [][AnyNodeNext]_vars

\* The same callers on a ring made with any of the routing functions.
FilterInit == \E f \in Filters : NewWith(f)
FilterSpec == FilterInit /\ [][WatchNext]_vars

\* The Go scheduler runs every goroutine that can run: a caller inside a
\* call and the caller of DeregisterWatcher take their next step when it
\* stays possible.  Nothing obliges a subscriber to receive, or anybody to
\* start a call.
FairWatchSpec ==
    /\ WatchSpec
    /\ \A p \in Procs : WF_vars(CallerStep(p))
    /\ WF_vars(DeregStep)

\* --------------------------------------------- vocabulary of the properties
\* The slice insertions the node operations can ask for.
SliceArgs ==
    {[slice |-> SliceHash(n, i), node |-> n] :
        n \in Nodes, i \in 0..(MaxVFactor * BaseVFactor - 1)}

\* One slice insertion or removal from the current ring, as an execution.
InsertRuns ==
    {insertSlice(Begin(Ring), a.slice, a.node, po) :
        a \in {b \in SliceArgs : ~Has(nodesBySlice, b.slice)},
        po \in PoolOrders(Ring)}
RemoveRuns == {removeSlice(Begin(Ring), sl) : sl \in DOMAIN nodesBySlice}

\* The recorded owner of hash in ring r: a slice, or -1 when r has no slice
\* or records none.
NoSlice == 0 - 1
RecordedOwner(r, hash) ==
    IF Len(r.slices) = 0 THEN NoSlice ELSE Get(r.slicesByHash, hash, NoSlice)

\* The positions in out of the ring-change notifications of key with the
\* given Removed flag.
RingChangeOps(out, key, removed) ==
    {i \in DOMAIN out : /\ out[i].op.Key = key
                        /\ out[i].op.Removed = removed
                        /\ out[i].op.RingChange}
OpsAbout(out, key) == {i \in DOMAIN out : out[i].op.Key = key}

\* -------------------------------------------------------------- properties
\* C1: whenever the ring has a slice, every hash position of the hash index
\* has an owner in the ownership record, and it is the largest slice
\* position <= the hash position (wrapping to the largest slice); a hash
\* position equal to a slice position is owned by that slice.
C1_OwnershipCoverage ==
    Len(slices) > 0 =>
        \A h \in Range(hashes) :
            /\ Has(slicesByHash, h)
            /\ slicesByHash[h] = OwnerOf(slices, h)

\* The execution x of a slice insertion or removal from the current ring
\* emits, for each key at a hash position whose owner changes, exactly one
\* removed=true notification naming the old owner's node and exactly one
\* removed=false notification naming the new owner's node, all with
\* ringChange=true, and nothing for a key at a position whose owner does not
\* change.  (A position that comes from or goes to the unassigned pool has
\* no old or no new owner to name.)
SliceRunNotifiesExactly(x) ==
    \A h \in Range(hashes) :
        LET old == RecordedOwner(Ring, h)
            new == RecordedOwner(x.r, h)
            keys == Get(keysByHash, h, <<>>)
        IN \A i \in DOMAIN keys :
            LET k == keys[i].Key
                rem == RingChangeOps(x.out, k, TRUE)
                add == RingChangeOps(x.out, k, FALSE)
            IN IF old = new
               THEN OpsAbout(x.out, k) = {}
               ELSE /\ OpsAbout(x.out, k) = rem \cup add
                    /\ IF old = NoSlice THEN rem = {}
                       ELSE /\ Cardinality(rem) = 1
                            /\ \A j \in rem :
                                 x.out[j].op.Node = Get(nodesBySlice, old, NoNode)
                    /\ IF new = NoSlice THEN add = {}
                       ELSE /\ Cardinality(add) = 1
                            /\ \A j \in add :
                                 x.out[j].op.Node = Get(x.r.nodesBySlice, new, NoNode)

\* C2: every slice insertion or removal emits exactly one removal and one
\* addition notification, with ringChange=true, for each key at a position
\* whose owner changes, and none for the keys at other positions.
C2_ExactlyOneRemovalAndAddition ==
    \A x \in InsertRuns \cup RemoveRuns : SliceRunNotifiesExactly(x)

\* C7: a CreateNode call that returns an error leaves the ring unchanged.
C7_FailedCreateNodeChangesNothing ==
    \A node \in Nodes, vFactor \in VFactors, po \in PoolOrders(Ring) :
        LET x == CreateNode(Ring, node, vFactor, po)
        IN x.err # ErrNone => x.r = Ring

\* C8: inserting a slice at an unoccupied position and immediately removing
\* it restores the ownership record exactly.
C8_InsertThenRemoveRestoresOwnership ==
    \A a \in {b \in SliceArgs : ~Has(nodesBySlice, b.slice)},
       po \in PoolOrders(Ring) :
        removeSlice(insertSlice(Begin(Ring), a.slice, a.node, po),
                    a.slice).r.slicesByHash = slicesByHash

\* The Order of the key named keyName at hash.
OrderAt(hash, keyName) ==
    LET keys == Get(keysByHash, hash, <<>>)
    IN keys[CHOOSE i \in DOMAIN keys : keys[i].Key = keyName].Order

\* The positions in out of the ring-change notifications, with the given
\* Removed flag, of the keys at hash.
RingChangeOpsAt(out, hash, removed) ==
    {i \in DOMAIN out :
        /\ out[i].op.RingChange
        /\ out[i].op.Removed = removed
        /\ Get(hashesByKey, out[i].op.Key, NoSlice) = hash}

\* C9, strict form: in one slice insertion or removal, the removal
\* notifications of the keys sharing a hash position, and likewise the
\* addition notifications, come in strictly ascending Order.
C9_StrictlyAscendingOrder ==
    \A x \in InsertRuns \cup RemoveRuns, h \in Range(hashes),
       removed \in BOOLEAN :
        \A i, j \in RingChangeOpsAt(x.out, h, removed) :
            i < j => OrderAt(h, x.out[i].op.Key) < OrderAt(h, x.out[j].op.Key)

\* C9, non-strict form: in one slice insertion or removal, the removal
\* notifications of the keys sharing a hash position, and likewise the
\* addition notifications, come in an Order that never descends.
C9_AscendingOrder ==
    \A x \in InsertRuns \cup RemoveRuns, h \in Range(hashes),
       removed \in BOOLEAN :
        \A i, j \in RingChangeOpsAt(x.out, h, removed) :
            i < j => OrderAt(h, x.out[i].op.Key) <= OrderAt(h, x.out[j].op.Key)

\* A slice change notifies two keys of one position that differ in Order,
\* both with a removal and with an addition.
C9_Witness ==
    \E x \in InsertRuns \cup RemoveRuns, h \in Range(hashes) :
        \A removed \in BOOLEAN :
            \E i, j \in RingChangeOpsAt(x.out, h, removed) :
                OrderAt(h, x.out[i].op.Key) # OrderAt(h, x.out[j].op.Key)

\* C10: with zero slices Emplace puts the hash position in the unassigned
\* pool and notifies with an empty node and ringChange=false; the first
\* slice inserted afterwards empties the pool, becomes the recorded owner of
\* every pooled position and notifies each key there once, with
\* ringChange=true, removed=false and the slice's node.
C10_PoolThenFirstSlice ==
    Len(slices) = 0 =>
        /\ \A key \in KeyArgs, hk \in HashKeys :
             LET x == Emplace(Ring, key, hk)
                 hash == Hash(IF Len(hk) = 0 THEN key.Key ELSE hk[1])
             IN x.err = ErrNone =>
                  /\ Has(x.r.empty, hash)
                  /\ OpsOf(x.out) =
                       <<Op(key.Key, NoNode, key.Value, FALSE, FALSE, FALSE)>>
        /\ \A a \in SliceArgs, po \in PoolOrders(Ring) :
             LET x == insertSlice(Begin(Ring), a.slice, a.node, po)
             IN /\ x.err = ErrNone
                /\ DOMAIN x.r.empty = {}
                /\ \A h \in DOMAIN empty :
                     /\ Get(x.r.slicesByHash, empty[h], NoSlice) = a.slice
                     /\ \A i \in DOMAIN Get(keysByHash, empty[h], <<>>) :
                          LET k == keysByHash[empty[h]][i].Key
                          IN /\ Cardinality(OpsAbout(x.out, k)) = 1
                             /\ \A j \in OpsAbout(x.out, k) :
                                  x.out[j].op =
                                    Op(k, a.node, Get(contentByKey, k, NoPayload),
                                       FALSE, FALSE, TRUE)

\* Keys were emplaced while the ring had no slice: two pooled positions,
\* each with a key.
C10_Witness ==
    /\ Len(slices) = 0
    /\ Cardinality(DOMAIN empty) >= 2
    /\ \A h \in DOMAIN empty : Len(Get(keysByHash, h, <<>>)) > 0

\* --------------------------------------- properties of calls in flight
\* A caller is inside a method that changes the ring.
InCall(p) == callers[p].pc \notin {"idle", "panic"}

\* C3: every operation that changes the ring holds the ring's exclusive
\* lock for the whole call, so no two callers are inside such operations at
\* once.
C3_MutatorsHoldLock ==
    /\ \A p \in Procs : InCall(p) => mu = p
    /\ \A p, q \in Procs : InCall(p) /\ InCall(q) => p = q

\* The event an Emplace or Remove call owes the watcher of the key's owner.
EventOf(c) ==
    Op(c.call.key.Key, c.owner,
       IF c.call.op = "Emplace" THEN c.call.key.Value ELSE NoPayload,
       c.call.op = "Remove", FALSE, FALSE)

\* Caller p returns, in this step, from a successful Emplace or Remove of a
\* key at a hash position whose owning node had a watcher registered when
\* the call began and has it still.
ReturnsWatched(p) ==
    LET c == callers[p]
    IN /\ c.pc # "idle"
       /\ callers'[p].pc = "idle"
       /\ c.call.op \in {"Emplace", "Remove"}
       /\ c.err = ErrNone
       /\ c.owner # NoNode
       /\ c.regAt # NoSub
       /\ Get(watchers', c.owner, NoSub) = c.regAt
       /\ ~subs'[c.regAt].doneClosed

\* C4: an Emplace or Remove of a key whose hash position is owned by a node
\* with a registered watcher has delivered its event, naming that node, to
\* that watcher when the call returns.
C4_DeliveredBeforeReturn ==
    [][\A p \in Procs :
          ReturnsWatched(p) =>
              \E i \in (callers[p].gotAt + 1)..Len(subs'[callers[p].regAt].got) :
                  subs'[callers[p].regAt].got[i] = EventOf(callers[p])]_vars

\* C5, by routing key: when DeregisterWatcher has returned, every
\* notify that was blocked on a send for its routing key has left the send.
C5_DeregisterUnblocksRoutingKey ==
    dereg.pc = "idle" => dereg.owed = {}

\* Caller p is in a notify in flight on subscription s.
InFlight(p, s) ==
    /\ callers[p].pc \in {"select", "wgDone"}
    /\ callers[p].watcher = s

\* C5, by subscription: once DeregisterWatcher has found a subscription in the
\* registry, the notifies blocked on that subscription return and
\* DeregisterWatcher returns.
C5_DeregisterUnblocksItsSubscription ==
    (dereg.pc = "closeDone") ~>
        (/\ dereg.pc = "idle"
         /\ \A p \in Procs : ~InFlight(p, dereg.sub))

\* DeregisterWatcher has returned and a notify that was blocked on its
\* subscription left by the done case.
C5_Witness ==
    /\ dereg.pc = "idle"
    /\ dereg.sub # NoSub
    /\ dereg.freed # {}

\* C6: DeregisterWatcher closes the message channel only when no notify is
\* in flight on the subscription, no notify sends on a closed channel, and
\* no notify adds itself to the in-flight count of a subscription that has
\* left the registry.
C6_CloseAfterInFlight ==
    /\ \A p \in Procs : callers[p].pc # "panic"
    /\ \A s \in DOMAIN subs :
         /\ subs[s].msgClosed =>
              /\ subs[s].wg = 0
              /\ \A p \in Procs : ~InFlight(p, s)
         /\ ~subs[s].late

\* A subscription's message channel was closed after a notify had been in
\* flight on it, and a later notify for the same routing key found a new
\* subscription.
C6_Witness ==
    /\ dereg.pc = "idle"
    /\ dereg.freed # {}
    /\ subs[dereg.sub].msgClosed
    /\ \E p \in Procs, s \in DOMAIN subs : s # dereg.sub /\ InFlight(p, s)

\* ------------------------------------------ properties of the key lifecycle
\* C11: whenever the ring has no slice, every hash position of the hash
\* index is in the unassigned pool.
C11_NoSliceAllPooled ==
    Len(slices) = 0 => \A h \in Range(hashes) : Has(empty, h)

\* The keys the ring holds, and the hash position of each.
KeysHeld == DOMAIN hashesByKey

\* C12: Remove of an existing key retires the key's hash position from the
\* hash index, the ownership record and the unassigned pool if and only if
\* the key was the last at the position; otherwise the position stays in
\* the hash index and keeps its owner or its pool membership.
C12_RemoveRetiresOnlyLastKey ==
    \A k \in KeysHeld :
        LET h == hashesByKey[k]
            x == Remove(Ring, k)
        IN IF Len(Get(keysByHash, h, <<>>)) = 1
           THEN /\ h \notin Range(x.r.hashes)
                /\ ~Has(x.r.slicesByHash, h)
                /\ ~Has(x.r.empty, h)
           ELSE /\ h \in Range(x.r.hashes)
                /\ Has(x.r.slicesByHash, h) = Has(slicesByHash, h)
                /\ Get(x.r.slicesByHash, h, NoSlice) = Get(slicesByHash, h, NoSlice)
                /\ Has(x.r.empty, h) = Has(empty, h)

\* The hash positions the ownership record assigns to slice.
OwnedBy(r, slice) ==
    {h \in Range(r.hashes) : Has(r.slicesByHash, h) /\ r.slicesByHash[h] = slice}

\* C13: removing the last remaining slice emits a removed=true,
\* ringChange=true notification for every key it owned; afterwards every
\* hash position it owned is in the unassigned pool, the pool has as many
\* positions as the slice owned, and the ownership record assigns no hash
\* position to the removed slice.
C13_LastSliceRemovalPoolsAll ==
    Len(slices) = 1 =>
        LET slice == slices[1]
            owned == OwnedBy(Ring, slice)
            x == removeSlice(Begin(Ring), slice)
        IN /\ \A h \in owned :
                \A i \in DOMAIN Get(keysByHash, h, <<>>) :
                    \E j \in DOMAIN x.out :
                        x.out[j].op =
                            Op(keysByHash[h][i].Key, nodesBySlice[slice],
                               Get(contentByKey, keysByHash[h][i].Key, NoPayload),
                               TRUE, FALSE, TRUE)
           /\ \A h \in owned : Has(x.r.empty, h)
           /\ Cardinality(DOMAIN x.r.empty) = Cardinality(owned)
           /\ \A h \in DOMAIN x.r.slicesByHash : x.r.slicesByHash[h] # slice

\* ------------------------------------------ properties of the blocked ring
\* Caller q's notify waits, before and after this step, for its subscriber
\* to receive or for the subscription's done channel to close.
StaysBlocked(q) ==
    /\ callers[q].pc = "select"
    /\ callers'[q].pc = "select"

\* In this step a call of a mutating method returns: a caller inside one
\* comes back, or a call begins and runs to its end at once.
CallReturns ==
    \/ \E p \in Procs : /\ callers[p].pc \notin {"idle", "panic"}
                        /\ callers'[p].pc = "idle"
    \/ /\ ncalls' = ncalls + 1
       /\ \A p \in Procs : callers'[p].pc = callers[p].pc

\* C14: while an operation has a notification pending on a subscriber that
\* neither receives nor is deregistered, no operation on the ring returns.
C14_BlockedRingAdmitsNothing ==
    [][(\E q \in Procs : StaysBlocked(q)) => ~CallReturns]_vars

\* C15: every event a subscription has received has, under the ring's
\* routing function, the routing key the subscription was registered under.
C15_ReceivedUnderOwnRoutingKey ==
    \A s \in DOMAIN subs :
        \A i \in DOMAIN subs[s].got : Filter(subs[s].got[i]) = subs[s].key

\* A ring with an installed routing function has delivered an event to one
\* subscription while a second one, registered for the same node under
\* another routing key, has received nothing.
C15_Witness ==
    /\ filter # ByNode
    /\ \E s, t \in DOMAIN subs :
           /\ subs[s].got # <<>>
           /\ subs[t].got = <<>>
           /\ subs[t].key # subs[s].key
           /\ \E op \in Templates :
                  /\ op.Node = subs[s].got[1].Node
                  /\ Filter(op) = subs[t].key
\* The notify a caller is in finds no subscription under its event's
\* routing key.
NoSubscription(p) ==
    /\ callers[p].pc = "notify"
    /\ ~Has(watchers, Filter(CurrentOp(callers[p])))

\* The caller's notify has returned: the caller is in the notify of its
\* next event, or back from its call.
PastNotify(p) ==
    \/ callers'[p].pc = "idle"
    \/ /\ callers'[p].pc = "notify"
       /\ callers'[p].idx = callers[p].idx + 1

\* C16: a notify that finds no subscription under its event's routing key
\* returns in that step, holding no lock and delivering nothing; an event
\* reaches a subscription only from a notify whose lookup found that
\* subscription registered under the event's routing key, so an event that
\* found none is never delivered to a watcher registered afterwards.
C16_UnroutedEventIsDropped ==
    [][/\ \A p \in Procs :
             NoSubscription(p) /\ callers'[p] # callers[p] =>
                 /\ PastNotify(p)
                 /\ subs' = subs
                 /\ watchMu' = NoProc
       /\ \A p \in Procs :
             callers'[p].pc = "add" /\ callers[p].pc # "add" =>
                 /\ callers[p].pc = "notify"
                 /\ Has(watchers, Filter(CurrentOp(callers[p])))
                 /\ callers'[p].watcher = watchers[Filter(CurrentOp(callers[p]))]
                 /\ callers'[p].op = callers[p].op
       /\ \A s \in DOMAIN subs :
             subs'[s].got # subs[s].got =>
                 \E p \in Procs :
                     /\ callers[p].pc = "select"
                     /\ callers[p].watcher = s
                     /\ subs'[s].got = Append(subs[s].got, CurrentOp(callers[p]))
      ]_vars

\* A caller is past the notify of its first event, whose lookup found no
\* subscription, and a subscription registered since under that event's
\* routing key has received nothing.
C16_Witness ==
    \E p \in Procs :
        /\ callers[p].pc = "notify"
        /\ callers[p].idx = 2
        /\ callers[p].watcher = NoSub
        /\ Has(watchers, Filter(callers[p].script[1].op))
        /\ subs[watchers[Filter(callers[p].script[1].op)]].got = <<>>
\* C17: UpdateNode of a node the ring does not hold returns the not-found
\* error, leaves every table as it was and notifies nobody.
C17_UpdateOfMissingNodeChangesNothing ==
    \A node \in Nodes \ DOMAIN vFactorByNode, vFactor \in VFactors :
        \A poolOrder \in PoolOrders(Ring) :
            \E x \in {UpdateNode(Ring, node, vFactor, poolOrder)} :
                /\ x.err = ErrNodeNotFound
                /\ x.r = Ring
                /\ x.out = <<>>

\* A node is missing from a ring that holds another node's slices and some
\* keys, and UpdateNode of the missing node fails.
C17_Witness ==
    /\ Len(slices) > 0
    /\ Len(hashes) > 0
    /\ \E node \in Nodes \ DOMAIN vFactorByNode :
           UpdateNode(Ring, node, MaxVFactor, <<>>).err = ErrNodeNotFound
\* The ownership record of ring r assigns every hash position to the slice
\* that owns its range.
Covered(r) ==
    Len(r.slices) > 0 =>
        \A h \in Range(r.hashes) :
            /\ Has(r.slicesByHash, h)
            /\ r.slicesByHash[h] = OwnerOf(r.slices, h)

\* The slice indexes UpdateNode adds to raise node to vFactor, and those of
\* them whose slice position is taken.
NewSliceIdxs(node, vFactor) ==
    (vFactorByNode[node] * BaseVFactor)..(vFactor * BaseVFactor - 1)
Colliding(node, vFactor) ==
    {i \in NewSliceIdxs(node, vFactor) :
        Has(nodesBySlice, SliceHash(node, i))}
Min(S) == CHOOSE m \in S : \A n \in S : m <= n

\* An UpdateNode call that raises a node's vFactor into a taken slice
\* position, from the current ring.
GrowthCollisions ==
    {[node |-> node, vFactor |-> vFactor] :
        node \in DOMAIN vFactorByNode, vFactor \in VFactors}
    \cap
    {c \in [node : Nodes, vFactor : VFactors] :
        /\ Has(vFactorByNode, c.node)
        /\ c.vFactor > vFactorByNode[c.node]
        /\ Colliding(c.node, c.vFactor) # {}}

\* C18: an UpdateNode that raises vFactor and meets a taken slice position
\* returns the slice-collision error, keeps the recorded vFactor, keeps the
\* slices it inserted before the taken one, and leaves an ownership record
\* that assigns every hash position to the slice that owns its range.
C18_CollisionLeavesOwnershipCovered ==
    \A c \in GrowthCollisions, poolOrder \in PoolOrders(Ring) :
        \E x \in {UpdateNode(Ring, c.node, c.vFactor, poolOrder)} :
            /\ x.err = ErrSliceHashCollision
            /\ x.r.vFactorByNode = vFactorByNode
            /\ \A i \in NewSliceIdxs(c.node, c.vFactor) :
                   i < Min(Colliding(c.node, c.vFactor)) =>
                       /\ SliceHash(c.node, i) \in Range(x.r.slices)
                       /\ Get(x.r.nodesBySlice, SliceHash(c.node, i), NoNode)
                              = c.node
            /\ Covered(x.r)

\* The same call on a ring whose ownership record assigned every hash
\* position to the slice that owns its range before the call: the call
\* itself keeps the record covered.
C18_CollisionKeepsOwnershipCovered ==
    \A c \in GrowthCollisions, poolOrder \in PoolOrders(Ring) :
        \E x \in {UpdateNode(Ring, c.node, c.vFactor, poolOrder)} :
            /\ x.err = ErrSliceHashCollision
            /\ x.r.vFactorByNode = vFactorByNode
            /\ \A i \in NewSliceIdxs(c.node, c.vFactor) :
                   i < Min(Colliding(c.node, c.vFactor)) =>
                       /\ SliceHash(c.node, i) \in Range(x.r.slices)
                       /\ Get(x.r.nodesBySlice, SliceHash(c.node, i), NoNode)
                              = c.node
            /\ (Covered(Ring) => Covered(x.r))
\* C19: Emplace of a nil key returns the nil-key error, Emplace of a key
\* name the ring holds returns the duplicate-key error, and either leaves
\* every table as it was and notifies nobody.
C19_RejectedEmplaceChangesNothing ==
    \A key \in KeyArgs, hk \in HashKeys :
        key.IsNil \/ key.Key \in KeysHeld =>
            \E x \in {Emplace(Ring, key, hk)} :
                /\ x.err = IF key.IsNil THEN ErrNilKey ELSE ErrKeyAlreadyExists
                /\ x.r = Ring
                /\ x.out = <<>>

\* The ring holds a key with one payload, under a slice, and Emplace of the
\* same key name with another payload, order and hash token is rejected.
C19_Witness ==
    /\ Len(slices) > 0
    /\ \E k \in KeysHeld :
           /\ Get(contentByKey, k, NoPayload) = 1
           /\ Emplace(Ring, KeyOf(k, MaxOrder, 2), <<"t">>).err
                  = ErrKeyAlreadyExists
           /\ Hash("t") # hashesByKey[k]
\* C20: Update of a key the ring holds changes the payload table only, at
\* that key, and makes exactly one notify call, with updated=true, the new
\* payload and the node whose slice owns the key's hash position; Update of
\* a nil key or of a key the ring does not hold returns an error, changes
\* nothing and notifies nobody.
C20_UpdateReplacesPayloadOnly ==
    \A key \in KeyArgs :
        \E x \in {Update(Ring, key)} :
            IF ~key.IsNil /\ Has(contentByKey, key.Key)
            THEN /\ x.err = ErrNone
                 /\ x.r = [Ring EXCEPT !.contentByKey =
                                          Put(@, key.Key, key.Value)]
                 /\ Len(x.out) = 1
                 /\ x.out[1].op = Op(key.Key, OwnerNode(Ring, key.Key),
                                     key.Value, FALSE, TRUE, FALSE)
            ELSE /\ x.err # ErrNone
                 /\ x.r = Ring
                 /\ x.out = <<>>
\* The hash positions the ownership record of r assigns to a slice of node.
PositionsOf(r, node) ==
    {h \in Range(r.hashes) :
        /\ Has(r.slicesByHash, h)
        /\ Get(r.nodesBySlice, r.slicesByHash[h], NoNode) = node}

\* C21: DeleteNode of an identifier the node table does not hold changes
\* nothing; DeleteNode of a node it holds leaves no slice mapped to the
\* node, GetNode reporting not-found for it, and every hash position the
\* node owned assigned to a remaining slice or, when no slice remains, in
\* the unassigned pool.
C21_DeleteNodeRemovesEverySlice ==
    \A identifier \in Nodes :
        \E x \in {DeleteNode(Ring, identifier)} :
            IF ~Has(vFactorByNode, identifier)
            THEN /\ x.r = Ring
                 /\ x.out = <<>>
            ELSE /\ \A sl \in DOMAIN x.r.nodesBySlice :
                        x.r.nodesBySlice[sl] # identifier
                 /\ \A sl \in Range(x.r.slices) :
                        Get(x.r.nodesBySlice, sl, NoNode) # identifier
                 /\ GetNode(x.r, identifier).err = ErrNodeNotFound
                 /\ \A h \in PositionsOf(Ring, identifier) :
                        IF Len(x.r.slices) > 0
                        THEN /\ Has(x.r.slicesByHash, h)
                             /\ x.r.slicesByHash[h] \in Range(x.r.slices)
                        ELSE Has(x.r.empty, h)
\* C22: the first slice inserted into a ring whose unassigned pool holds
\* several hash positions notifies their keys in ascending hash order, and
\* when a key is notified every smaller pooled position has already left
\* the pool for the ownership record.
C22_PoolMovedInAscendingOrder ==
    Len(slices) = 0 =>
        \A a \in SliceArgs, poolOrder \in PoolOrders(Ring) :
            \E x \in {insertSlice(Begin(Ring), a.slice, a.node, poolOrder)} :
                /\ \A i, j \in DOMAIN x.out :
                       i < j => hashesByKey[x.out[i].op.Key]
                                   <= hashesByKey[x.out[j].op.Key]
                /\ \A i \in DOMAIN x.out, h \in DOMAIN empty :
                       h < hashesByKey[x.out[i].op.Key] =>
                           /\ ~Has(x.out[i].at.empty, h)
                           /\ Has(x.out[i].at.slicesByHash, h)
\* The slice after and the slice before position s among the positions
\* others, going round the ring.
NextClockwise(others, s) ==
    IF {t \in others : t > s} # {} THEN Min({t \in others : t > s})
    ELSE Min(others)
PrevClockwise(others, s) ==
    IF {t \in others : t < s} # {} THEN Max({t \in others : t < s})
    ELSE Max(others)

\* Hash position h lies in the circular half-open range [s, next).
InArc(h, s, next) ==
    IF s < next THEN s <= h /\ h < next ELSE h >= s \/ h < next

\* The slice insertions into a ring that has slices, and the removals of a
\* slice that is not the last one, from the current ring.
LaterInsertions ==
    {a \in SliceArgs : Len(slices) > 0 /\ ~Has(nodesBySlice, a.slice)}
EarlyRemovals == {sl \in Range(slices) : Len(slices) > 1}

\* C23: inserting slice S into a ring that has slices gives S every hash
\* position of the circular range [S, next slice clockwise), removing a
\* slice S that is not the last gives those positions to the previous slice
\* clockwise, and either leaves the recorded owner of every other hash
\* position as it was.
C23_OnlyTheArcChangesOwner ==
    /\ \A a \in LaterInsertions :
          \E x \in {insertSlice(Begin(Ring), a.slice, a.node, <<>>)} :
              \A h \in Range(hashes) :
                  IF InArc(h, a.slice, NextClockwise(Range(slices), a.slice))
                  THEN Get(x.r.slicesByHash, h, NoSlice) = a.slice
                  ELSE Get(x.r.slicesByHash, h, NoSlice)
                          = Get(slicesByHash, h, NoSlice)
    /\ \A sl \in EarlyRemovals :
          \E x \in {removeSlice(Begin(Ring), sl)} :
              \A h \in Range(hashes) :
                  IF InArc(h, sl, NextClockwise(Range(slices) \ {sl}, sl))
                  THEN Get(x.r.slicesByHash, h, NoSlice)
                          = PrevClockwise(Range(slices) \ {sl}, sl)
                  ELSE Get(x.r.slicesByHash, h, NoSlice)
                          = Get(slicesByHash, h, NoSlice)

\* The ring holds hash positions inside and outside the range of a slice
\* that can be inserted, and inside and outside the range of a slice that
\* can be removed, with a range that wraps past the largest position.
C23_Witness ==
    /\ \E a \in LaterInsertions, h1, h2 \in Range(hashes) :
          /\ InArc(h1, a.slice, NextClockwise(Range(slices), a.slice))
          /\ ~InArc(h2, a.slice, NextClockwise(Range(slices), a.slice))
    /\ \E sl \in EarlyRemovals, h1, h2 \in Range(hashes) :
          /\ NextClockwise(Range(slices) \ {sl}, sl) < sl
          /\ InArc(h1, sl, NextClockwise(Range(slices) \ {sl}, sl))
          /\ ~InArc(h2, sl, NextClockwise(Range(slices) \ {sl}, sl))
\* The hash position of the key a notification is about.
HashOfOp(o) == Get(hashesByKey, o.op.Key, NoSlice)

\* C24: in one slice insertion or removal, a removal notification is made
\* while the ownership record of its key's position is still as before the
\* change, an addition notification is made when the record already has its
\* final value, the notifications of one position are not interleaved with
\* those of another, and no key's addition comes before its removal.
C24_RemovalsThenReassignThenAdditions ==
    \A x \in InsertRuns \cup RemoveRuns :
        /\ \A i \in DOMAIN x.out :
               LET h == HashOfOp(x.out[i])
               IN /\ x.out[i].op.RingChange
                  /\ Get(x.out[i].at.slicesByHash, h, NoSlice) =
                        IF x.out[i].op.Removed
                        THEN Get(slicesByHash, h, NoSlice)
                        ELSE Get(x.r.slicesByHash, h, NoSlice)
        /\ \A i, j, k \in DOMAIN x.out :
               i < j /\ j < k /\ HashOfOp(x.out[i]) = HashOfOp(x.out[k]) =>
                   HashOfOp(x.out[j]) = HashOfOp(x.out[i])
        /\ \A key \in KeysHeld :
               \A i \in RingChangeOps(x.out, key, TRUE),
                  j \in RingChangeOps(x.out, key, FALSE) : i < j

\* One slice change reassigns two hash positions, each with a removal and
\* an addition notification, between two different slices.
C24_Witness ==
    \E x \in InsertRuns \cup RemoveRuns :
        \E h1, h2 \in Range(hashes) :
            /\ h1 # h2
            /\ \A h \in {h1, h2} :
                   /\ RingChangeOpsAt(x.out, h, TRUE) # {}
                   /\ RingChangeOpsAt(x.out, h, FALSE) # {}
                   /\ Get(slicesByHash, h, NoSlice)
                          # Get(x.r.slicesByHash, h, NoSlice)
StrictlyAscending(seq) ==
    \A i, j \in DOMAIN seq : i < j => seq[i] < seq[j]

\* The hash positions and slice positions of the model.
Positions == 0..4

\* C25: the slice sequence and the hash-position sequence are each sorted
\* in strictly ascending order, so neither holds a value twice; they stay
\* so when a hash position is inserted again or an absent one is removed,
\* when the insertion of a taken slice position is rejected and when an
\* absent slice is removed.
C25_SortedWithoutDuplicates ==
    /\ StrictlyAscending(slices)
    /\ StrictlyAscending(hashes)
    /\ \A v \in Positions :
          /\ StrictlyAscending(insertHash(hashes, v))
          /\ StrictlyAscending(removeHash(hashes, v))
          /\ v \in Range(hashes) => insertHash(hashes, v) = hashes
          /\ v \notin Range(hashes) => removeHash(hashes, v) = hashes
          /\ v \in Range(slices) =>
                 insertSlice(Begin(Ring), v, NoNode, <<>>).r.slices = slices
          /\ v \notin Range(slices) =>
                 removeSlice(Begin(Ring), v).r.slices = slices

\* Two slices, and a hash position at which a second key was emplaced.
C25_Witness ==
    /\ Len(slices) >= 2
    /\ \E h \in Range(hashes) : Len(Get(keysByHash, h, <<>>)) >= 2
\* C26: the key list of every hash position is sorted by Order, ascending,
\* and each key the ring holds appears exactly once in the list of its own
\* hash position and in no other list.
C26_KeyListsSortedAndExact ==
    /\ \A h \in DOMAIN keysByHash :
          \A i, j \in DOMAIN keysByHash[h] :
              i < j => keysByHash[h][i].Order <= keysByHash[h][j].Order
    /\ \A k \in KeysHeld, h \in DOMAIN keysByHash :
          Cardinality({i \in DOMAIN keysByHash[h] : keysByHash[h][i].Key = k})
             = IF h = hashesByKey[k] THEN 1 ELSE 0
    /\ \A k \in KeysHeld : Has(keysByHash, hashesByKey[k])

\* A hash position holds two keys of different Order, key k2 first.
C26_Witness ==
    \E h \in DOMAIN keysByHash :
        /\ Len(keysByHash[h]) = 2
        /\ keysByHash[h][1].Order < keysByHash[h][2].Order
        /\ keysByHash[h][1].Key = "k2"
\* No key the ring holds is at hash position h.
Keyless(h) == \A k \in KeysHeld : hashesByKey[k] # h

\* C27: a hash position that has no key has no entry in the hash index, in
\* the ownership record, in the unassigned pool or in the position-to-keys
\* table.
C27_KeylessPositionHasNoEntry ==
    \A h \in Positions :
        Keyless(h) =>
            /\ h \notin Range(hashes)
            /\ ~Has(slicesByHash, h)
            /\ ~Has(empty, h)
            /\ ~Has(keysByHash, h)
\* A run that left the loop of convertHashes, with each key notified of at
\* most one addition: every position holds a key, so each position was
\* reassigned at most once.
ConvertedOnce(x) ==
    /\ x.err = ErrNone
    /\ \A k \in KeysHeld : Cardinality(RingChangeOps(x.out, k, FALSE)) <= 1

\* C28: convertHashes terminates, and reassigns each hash position at most
\* once, in every slice insertion and removal and for every start index and
\* end index from 0 to the length of the hash index, with and without
\* wraparound.
C28_ConvertHashesTerminates ==
    /\ \A x \in InsertRuns \cup RemoveRuns : ConvertedOnce(x)
    /\ \A sl \in Range(slices), circle \in BOOLEAN :
          \A hashStartIndex, hashEndIndex \in 0..Len(hashes) :
              ConvertedOnce(convertHashes(Begin(Ring), sl, hashStartIndex,
                                          hashEndIndex, circle))

\* A ring with slices and two hash positions: an end index equal to the
\* length, start equal to end, and a range that wraps all occur.
C28_Witness ==
    /\ Len(slices) >= 2
    /\ Len(hashes) = 2
    /\ \E a \in LaterInsertions :
          /\ findIndex(hashes, a.slice) = Len(hashes)
          /\ NextClockwise(Range(slices), a.slice) < a.slice
\* C29: emplacing a key and then inserting a slice leaves the same
\* ownership record as inserting the slice and then emplacing the key.
C29_OwnerIndependentOfOrder ==
    \A a \in {b \in SliceArgs : ~Has(nodesBySlice, b.slice)},
       key \in {k \in KeyArgs : ~k.IsNil /\ k.Key \notin KeysHeld},
       hk \in HashKeys :
        \E keyFirst \in {Emplace(Ring, key, hk)} :
            \A po1 \in PoolOrders(keyFirst.r), po2 \in PoolOrders(Ring) :
                insertSlice(Begin(keyFirst.r), a.slice, a.node, po1).r.slicesByHash
                  = Emplace(insertSlice(Begin(Ring), a.slice, a.node, po2).r,
                            key, hk).r.slicesByHash
\* The slices of the ring that map to node.
SlicesOf(node) ==
    {sl \in Range(slices) : Get(nodesBySlice, sl, NoNode) = node}

\* C30: every slice of the ring maps to a node of the node table, and every
\* node of the node table has exactly vFactor x BaseVFactor slices.
C30_NodeTableMatchesSlices ==
    /\ \A sl \in Range(slices) :
          /\ Has(nodesBySlice, sl)
          /\ Has(vFactorByNode, nodesBySlice[sl])
    /\ \A node \in DOMAIN vFactorByNode :
          Cardinality(SlicesOf(node)) = vFactorByNode[node] * BaseVFactor
\* Ring r still holds every slice of the current ring that maps to a node
\* other than node, mapped as before.
KeepsSlicesOfOthers(r, node) ==
    \A sl \in Range(slices) :
        Get(nodesBySlice, sl, NoNode) # node =>
            /\ sl \in Range(r.slices)
            /\ Get(r.nodesBySlice, sl, NoNode) = Get(nodesBySlice, sl, NoNode)

\* C31: DeleteNode of a node, and UpdateNode of a node to a lower vFactor,
\* remove no slice that maps to another node.
C31_RemovesOnlyOwnSlices ==
    /\ \A identifier \in Nodes :
          KeepsSlicesOfOthers(DeleteNode(Ring, identifier).r, identifier)
    /\ \A node \in DOMAIN vFactorByNode, vFactor \in VFactors :
          vFactor < vFactorByNode[node] =>
              KeepsSlicesOfOthers(UpdateNode(Ring, node, vFactor, <<>>).r, node)
\* C32: once every concurrent call has returned, the payload table and the
\* key-to-hash table hold the same keys.
C32_SameKeysWhenQuiet ==
    (\A p \in Procs : callers[p].pc = "idle") =>
        DOMAIN contentByKey = DOMAIN hashesByKey
\* C33: the unassigned pool and the slice set are never both non-empty.
C33_PoolOnlyWithoutSlices ==
    DOMAIN empty # {} => Len(slices) = 0

\* The pool holds two hash positions, and the first slice inserted now
\* takes both out of it.
C33_Witness ==
    /\ Len(slices) = 0
    /\ Cardinality(DOMAIN empty) >= 2
    /\ \A a \in SliceArgs, poolOrder \in PoolOrders(Ring) :
          \E x \in {insertSlice(Begin(Ring), a.slice, a.node, poolOrder)} :
              /\ Len(x.r.slices) = 1
              /\ DOMAIN x.r.empty = {}
====
